---- MODULE Spec2Model ----
(***************************************************************************)
(* Assignment engine of the order management backend                       *)
(* (src/backend/app.py, src/backend/orders_service.py, src/backend/db.py). *)
(*                                                                         *)
(* Request handlers run on concurrent threads.  Every handler opens its    *)
(* own sqlite3 connection (db.get_db_connection).  With the defaults of    *)
(* sqlite3.connect the first INSERT/UPDATE of a connection opens a         *)
(* transaction and takes the database write lock, which it keeps until     *)
(* commit; a second writer waits; uncommitted rows are visible only to     *)
(* the connection that wrote them; a SELECT outside a transaction reads    *)
(* the committed table.                                                    *)
(*                                                                         *)
(* Timestamps are kept as the strings the caller sent: a timestamp is a    *)
(* record [date, tod, fmt] standing for the text "date <sep> tod", where   *)
(* fmt "T" is YYYY-MM-DDTHH:MM:SS, fmt "S" is YYYY-MM-DD HH:MM:SS and fmt   *)
(* "M" is YYYY-MM-DDTHH:MM (all accepted by datetime.fromisoformat), tod   *)
(* is minutes after midnight.  These three carry no UTC offset; fmt "Z"    *)
(* is YYYY-MM-DDTHH:MM:SSZ, which the code rewrites to +00:00 and parses   *)
(* to an offset-aware datetime; fmt "F" is YYYY-MM-DDTHH:MM:SS.500000, the *)
(* instant half a second after tod.                                        *)
(* Python parses the text; the SQL in the matcher compares the text.       *)
(***************************************************************************)
EXTENDS Integers, Sequences, FiniteSets, TLC

(* ---------------- bounds of the model ---------------- *)
NumProcs == 2
MaxOrders == 2
MaxOps == 3

Procs == 1..NumProcs
NoProc == 0
OrderIds == 1..MaxOrders

(* ---------------- program constants ---------------- *)
NULL == 0
MinWindow == 15
MaxWindow == 240

(* ---------------- timestamps as text ---------------- *)
Ts(date, tod, fmt) == [date |-> date, tod |-> tod, fmt |-> fmt]
NoTs == Ts(0, 0, "none")

\* datetime.fromisoformat(s.replace('Z', '+00:00')) succeeds
Parses(ts) == ts.fmt \in {"T", "S", "M", "Z", "F"}

\* the half seconds the parsed datetime has past its minute
Frac(ts) == IF ts.fmt = "F" THEN 1 ELSE 0

\* the parsed datetime's time of day, in half seconds
HalfSeconds(ts) == 120 * ts.tod + Frac(ts)

\* the parsed datetime carries a tzinfo
Aware(ts) == ts.fmt = "Z"

\* the separator character of the text: ' ' (0x20) sorts before 'T' (0x54)
SepRank(ts) == IF ts.fmt = "S" THEN 0 ELSE 1

\* the text ends after the minutes (HH:MM) or carries seconds (HH:MM:00): of two
\* texts equal up to the minutes the shorter sorts first, and so does the text
\* without the trailing .500000 or Z ('.' sorts before 'Z')
LenRank(ts) == IF ts.fmt = "M" THEN 0 ELSE IF ts.fmt = "F" THEN 2
               ELSE IF ts.fmt = "Z" THEN 3 ELSE 1

\* SQLite's text comparison  a < b  of two timestamp strings (BINARY collation):
\* the date digits first, then the separator, then the time digits, then the length
StrLT(a, b) ==
    \/ a.date < b.date
    \/ a.date = b.date /\ SepRank(a) < SepRank(b)
    \/ a.date = b.date /\ SepRank(a) = SepRank(b) /\ a.tod < b.tod
    \/ a.date = b.date /\ SepRank(a) = SepRank(b) /\ a.tod = b.tod /\ LenRank(a) < LenRank(b)

\* SQLite's DATE(text): both layouts are SQLite time strings
SqlDate(ts) == ts.date

\* the instants the two texts denote compare as  a < b
TimeLT(a, b) == a.date < b.date \/ (a.date = b.date /\ HalfSeconds(a) < HalfSeconds(b))

(* ---------------- Time-Window Validator ---------------- *)
\* "TypeError": dropoff_time - pickup_time of an offset-aware and an offset-naive
\* datetime raises outside the try block; the handler's request ends with it
validate_order_times(pickup, dropoff) ==
    IF ~Parses(pickup) \/ ~Parses(dropoff) THEN "InvalidFormat"
    ELSE IF pickup.date # dropoff.date THEN "CrossDayWindow"
    ELSE IF Aware(pickup) # Aware(dropoff) THEN "TypeError"
    ELSE LET time_diff == HalfSeconds(dropoff) - HalfSeconds(pickup)
         IN  IF time_diff < 120 * MinWindow THEN "WindowTooShort"
             ELSE IF time_diff > 120 * MaxWindow THEN "WindowTooLong"
             ELSE "ok"

(* ---------------- the fixed capacity tables ---------------- *)
\* rows of the tables in the order SQLite enumerates them (rowid order)
Merchants == {1, 2}

vehicles == << [id |-> 11, driver_id |-> 1, max_orders |-> 1, max_weight |-> 100],
               [id |-> 12, driver_id |-> 2, max_orders |-> 1, max_weight |-> 200] >>

shifts == << [driver_id |-> 1, shift_date |-> 1, start_time |-> 540, end_time |-> 1020],
             [driver_id |-> 2, shift_date |-> 1, start_time |-> 540, end_time |-> 780] >>

\* first row of a SELECT ... fetchone(), or the given default
FirstOr(s, default) == IF s = << >> THEN default ELSE s[1]

NoVehicle == [id |-> NULL, driver_id |-> NULL, max_orders |-> 0, max_weight |-> 0]

(* ---------------- Feasibility Matcher ---------------- *)
\* SELECT ... FROM shifts s JOIN drivers d JOIN vehicles v
\*   WHERE s.shift_date = ? AND s.start_time <= ? AND s.end_time >= ?
RECURSIVE CoveringShifts(_, _, _, _)
CoveringShifts(i, order_date, pickup_tod, dropoff_tod) ==
    IF i > Len(shifts) THEN << >>
    ELSE LET s == shifts[i]
             vs == SelectSeq(vehicles, LAMBDA v : v.driver_id = s.driver_id)
             rest == CoveringShifts(i + 1, order_date, pickup_tod, dropoff_tod)
         IN  IF s.shift_date = order_date /\ s.start_time <= pickup_tod
                /\ s.end_time >= dropoff_tod /\ vs # << >>
             THEN << [driver_id |-> s.driver_id, vehicle_id |-> vs[1].id,
                      max_orders |-> vs[1].max_orders,
                      max_weight |-> vs[1].max_weight] >> \o rest
             ELSE rest

\* SELECT COUNT(*) FROM orders WHERE vehicle_id = ? AND status IN (...)
\*   AND DATE(pickup_time) = ? AND pickup_time < ? AND dropoff_time > ?
\* the rows the WHERE clause selects
OverlappingOrders(db, vehicle_id, order_date, pickup, dropoff) ==
    {k \in DOMAIN db :
        /\ db[k].vehicle_id = vehicle_id
        /\ db[k].status \in {"assigned", "completed"}
        /\ SqlDate(db[k].pickup_time) = order_date
        /\ StrLT(db[k].pickup_time, dropoff)
        /\ StrLT(pickup, db[k].dropoff_time)}

CountOverlapping(db, vehicle_id, order_date, pickup, dropoff) ==
    Cardinality(OverlappingOrders(db, vehicle_id, order_date, pickup, dropoff))

NoMatch == [driver_id |-> NULL, vehicle_id |-> NULL]

RECURSIVE FirstFit(_, _, _, _, _, _, _)
FirstFit(db, cands, i, pickup, dropoff, weight, exclude_driver_id) ==
    IF i > Len(cands) THEN NoMatch
    ELSE LET shift == cands[i]
         IN  IF exclude_driver_id # NULL /\ shift.driver_id = exclude_driver_id
             THEN FirstFit(db, cands, i + 1, pickup, dropoff, weight, exclude_driver_id)
             ELSE IF weight > shift.max_weight
             THEN FirstFit(db, cands, i + 1, pickup, dropoff, weight, exclude_driver_id)
             ELSE IF CountOverlapping(db, shift.vehicle_id, pickup.date, pickup, dropoff)
                        >= shift.max_orders
             THEN FirstFit(db, cands, i + 1, pickup, dropoff, weight, exclude_driver_id)
             ELSE [driver_id |-> shift.driver_id, vehicle_id |-> shift.vehicle_id]

find_available_driver(db, pickup, dropoff, weight, exclude_driver_id) ==
    IF ~Parses(pickup) \/ ~Parses(dropoff) THEN NoMatch
    ELSE FirstFit(db, CoveringShifts(1, pickup.date, pickup.tod, dropoff.tod), 1,
                  pickup, dropoff, weight, exclude_driver_id)

(* ---------------- state ---------------- *)
VARIABLES
    orders,       \* the committed orders table: order id -> row
    txn,          \* per connection: the open write transaction and its uncommitted rows
    order_locks,  \* app.order_locks: order id -> lock object
    lock_held,    \* lock object -> the thread that holds it, or NoProc
    pc,           \* per request thread: the statement it is about to run
    req,          \* per request thread: order id, request body, its order_lock
    snap,         \* per request thread: the row read by SELECT * FROM orders WHERE id = ?
    asg,          \* per request thread: driver_id, vehicle_id chosen for the order
    out,          \* per request thread: the outcome it is about to return
    nops          \* number of requests started

vars == << orders, txn, order_locks, lock_held, pc, req, snap, asg, out, nops >>

EmptyDict == [x \in {} |-> NULL]
Get(data, key, default) == IF key \in DOMAIN data THEN data[key] ELSE default

NoRow == [merchant_id |-> NULL, driver_id |-> NULL, vehicle_id |-> NULL, status |-> "none",
          description |-> "", pickup_time |-> NoTs, dropoff_time |-> NoTs, weight |-> 0]
NoTxn == [open |-> FALSE, w |-> EmptyDict]
\* a lock object is known by the key it was created for and by how many locks
\* were created for that key before it; lock_held has every lock object created
NoLock == [key |-> NULL, nth |-> 0]
\* threading.Lock(): an object distinct from every lock created before
NewLock(k) == [key |-> k, nth |-> Cardinality({l \in DOMAIN lock_held : l.key = k}) + 1]
NoReq == [id |-> NULL, data |-> EmptyDict, lock |-> NoLock]

(* ---------------- the store as a connection sees it ---------------- *)
\* rows visible to p's connection: its own uncommitted rows over the committed table
View(p) == IF txn[p].open THEN txn[p].w @@ orders ELSE orders

\* SQLite admits one write transaction at a time: p's first INSERT/UPDATE waits
\* while another connection has an uncommitted write
DbWriteLockFree_NoWait(p) == TRUE
DbWriteLockFree(p) == \A q \in Procs \ {p} : ~txn[q].open

\* conn.execute(INSERT/UPDATE ...) of row k by p's connection
Execute(p, k, row) == [open |-> TRUE, w |-> (k :> row) @@ txn[p].w]

(* ---------------- Assignment Coordinator ---------------- *)
\* UPDATE orders SET driver_id = ?, vehicle_id = ?, status = 'assigned' / NULL, NULL, 'pending'
WriteAssignment_Unmatched(row, a) ==
    [row EXCEPT !.driver_id = NULL, !.vehicle_id = NULL, !.status = "pending"]
WriteAssignment_KeepStatus(row, a) ==
    [row EXCEPT !.driver_id = a.driver_id, !.vehicle_id = a.vehicle_id]
WriteAssignment(row, a) ==
    IF a.driver_id # NULL /\ a.vehicle_id # NULL
    THEN [row EXCEPT !.driver_id = a.driver_id, !.vehicle_id = a.vehicle_id,
                     !.status = "assigned"]
    ELSE [row EXCEPT !.driver_id = NULL, !.vehicle_id = NULL, !.status = "pending"]

(* ---------------- request bodies the model draws from ---------------- *)
WinA == [pickup_time |-> Ts(1, 600, "T"), dropoff_time |-> Ts(1, 720, "T")]
WinB == [pickup_time |-> Ts(1, 660, "T"), dropoff_time |-> Ts(1, 780, "T")]
WinBS == [pickup_time |-> Ts(1, 660, "S"), dropoff_time |-> Ts(1, 780, "S")]
\* a window starting where WinA ends, with and without seconds in the text
WinC == [pickup_time |-> Ts(1, 720, "T"), dropoff_time |-> Ts(1, 840, "T")]
WinCM == [pickup_time |-> Ts(1, 720, "M"), dropoff_time |-> Ts(1, 840, "M")]
WinCS == [pickup_time |-> Ts(1, 720, "S"), dropoff_time |-> Ts(1, 840, "S")]
WinShort == [pickup_time |-> Ts(1, 600, "T"), dropoff_time |-> Ts(1, 610, "T")]

CreateReqs ==
    { [merchant_id |-> 1, description |-> "a", pickup_time |-> w.pickup_time,
       dropoff_time |-> w.dropoff_time, weight |-> 50] : w \in {WinA, WinC, WinCS, WinShort} }

EditReqs ==
    { [merchant_id |-> 2],
      [description |-> "b"],
      [merchant_id |-> 1, description |-> "b"],
      [merchant_id |-> 1, weight |-> 150],
      [merchant_id |-> 1, weight |-> 150,
       pickup_time |-> WinBS.pickup_time, dropoff_time |-> WinBS.dropoff_time],
      [merchant_id |-> 1, pickup_time |-> WinCM.pickup_time, dropoff_time |-> WinCM.dropoff_time],
      [merchant_id |-> 1, dropoff_time |-> Ts(2, 610, "T")] }

Init ==
    /\ orders = EmptyDict
    /\ txn = [p \in Procs |-> NoTxn]
    /\ order_locks = EmptyDict
    /\ lock_held = EmptyDict
    /\ pc = [p \in Procs |-> "idle"]
    /\ req = [p \in Procs |-> NoReq]
    /\ snap = [p \in Procs |-> NoRow]
    /\ asg = [p \in Procs |-> NoMatch]
    /\ out = [p \in Procs |-> "none"]
    /\ nops = 0

\* a handler's return statement: the thread's locals are dropped
Return(p) ==
    /\ pc' = [pc EXCEPT ![p] = "idle"]
    /\ req' = [req EXCEPT ![p] = NoReq]
    /\ snap' = [snap EXCEPT ![p] = NoRow]
    /\ asg' = [asg EXCEPT ![p] = NoMatch]
    /\ out' = [out EXCEPT ![p] = "none"]

(* ---------------- POST /orders ---------------- *)
CreateLabels == {"c_insert", "c_match", "c_commit", "c_respond"}

\* the checks without validate_order_times (not the program's)
CreateCheck_NoValidation(data) ==
    IF \/ Get(data, "merchant_id", NULL) = NULL \/ Get(data, "pickup_time", NoTs) = NoTs
       \/ Get(data, "dropoff_time", NoTs) = NoTs \/ Get(data, "weight", 0) = 0
    THEN "MissingFields"
    ELSE IF data.merchant_id \notin Merchants THEN "MerchantNotFound"
    ELSE "ok"
\* request parsing, validate_order_times, merchant lookup
CreateCheck(data) ==
    LET merchant_id == Get(data, "merchant_id", NULL)
        pickup_time == Get(data, "pickup_time", NoTs)
        dropoff_time == Get(data, "dropoff_time", NoTs)
        weight == Get(data, "weight", 0)
    IN  IF merchant_id = NULL \/ pickup_time = NoTs \/ dropoff_time = NoTs \/ weight = 0
        THEN "MissingFields"
        ELSE IF validate_order_times(pickup_time, dropoff_time) # "ok"
        THEN validate_order_times(pickup_time, dropoff_time)
        ELSE IF merchant_id \notin Merchants THEN "MerchantNotFound"
        ELSE "ok"

CreateStart(p, data) ==
    /\ pc[p] = "idle"
    /\ nops < MaxOps
    /\ Cardinality(DOMAIN orders) + Cardinality({q \in Procs : pc[q] \in CreateLabels}) < MaxOrders
    /\ nops' = nops + 1
    /\ req' = [req EXCEPT ![p] = [id |-> NULL, data |-> data, lock |-> NoLock]]
    /\ out' = [out EXCEPT ![p] = CreateCheck(data)]
    /\ pc' = [pc EXCEPT ![p] = IF CreateCheck(data) = "ok" THEN "c_insert" ELSE "c_respond"]
    /\ UNCHANGED << orders, txn, order_locks, lock_held, snap, asg >>

\* an INSERT that is committed on its own (not the program's)
CreateInsert_Commits(p) ==
    /\ pc[p] = "c_insert"
    /\ DbWriteLockFree(p)
    /\ LET data == req[p].data
           order_id == Cardinality(DOMAIN View(p)) + 1
           row == [merchant_id |-> data.merchant_id, driver_id |-> NULL, vehicle_id |-> NULL,
                   status |-> "pending", description |-> Get(data, "description", ""),
                   pickup_time |-> data.pickup_time, dropoff_time |-> data.dropoff_time,
                   weight |-> data.weight]
       IN  /\ orders' = (order_id :> row) @@ orders
           /\ req' = [req EXCEPT ![p].id = order_id]
    /\ pc' = [pc EXCEPT ![p] = "c_match"]
    /\ UNCHANGED << txn, order_locks, lock_held, snap, asg, out, nops >>
\* INSERT INTO orders (...) VALUES (?, ?, 'pending', ?, ?, ?); order_id = cursor.lastrowid
CreateInsert(p) ==
    /\ pc[p] = "c_insert"
    /\ DbWriteLockFree(p)
    /\ LET data == req[p].data
           order_id == Cardinality(DOMAIN View(p)) + 1
           row == [merchant_id |-> data.merchant_id, driver_id |-> NULL, vehicle_id |-> NULL,
                   status |-> "pending", description |-> Get(data, "description", ""),
                   pickup_time |-> data.pickup_time, dropoff_time |-> data.dropoff_time,
                   weight |-> data.weight]
       IN  /\ txn' = [txn EXCEPT ![p] = Execute(p, order_id, row)]
           /\ req' = [req EXCEPT ![p].id = order_id]
    /\ pc' = [pc EXCEPT ![p] = "c_match"]
    /\ UNCHANGED << orders, order_locks, lock_held, snap, asg, out, nops >>

\* assign_driver_to_order: find_available_driver on the connection's view
CreateDecision(p) ==
    find_available_driver(View(p), req[p].data.pickup_time, req[p].data.dropoff_time,
                          req[p].data.weight, NULL)

\* a matcher that marks the order as it chooses (not the program's)
CreateMatch_MarksOrder(p) ==
    /\ pc[p] = "c_match"
    /\ asg' = [asg EXCEPT ![p] = CreateDecision(p)]
    /\ txn' = [txn EXCEPT ![p] = Execute(p, req[p].id,
                                          WriteAssignment(View(p)[req[p].id], CreateDecision(p)))]
    /\ pc' = [pc EXCEPT ![p] = "c_commit"]
    /\ UNCHANGED << orders, order_locks, lock_held, req, snap, out, nops >>
CreateMatch(p) ==
    /\ pc[p] = "c_match"
    /\ asg' = [asg EXCEPT ![p] = CreateDecision(p)]
    /\ pc' = [pc EXCEPT ![p] = "c_commit"]
    /\ UNCHANGED << orders, txn, order_locks, lock_held, req, snap, out, nops >>

\* assign_driver_to_order: the UPDATE and conn.commit()
CreateCommit(p) ==
    /\ pc[p] = "c_commit"
    /\ LET order_id == req[p].id
           row == WriteAssignment(View(p)[order_id], asg[p])
       IN  orders' = Execute(p, order_id, row).w @@ orders
    /\ txn' = [txn EXCEPT ![p] = NoTxn]
    /\ pc' = [pc EXCEPT ![p] = "c_respond"]
    /\ UNCHANGED << order_locks, lock_held, req, snap, asg, out, nops >>

\* the error response, or SELECT ... WHERE o.id = ?, conn.close() and the 201 response
CreateRespond(p) ==
    /\ pc[p] = "c_respond"
    /\ Return(p)
    /\ UNCHANGED << orders, txn, order_locks, lock_held, nops >>

(* ---------------- PUT /orders/<order_id> ---------------- *)
\* the statements inside  with order_lock:
EditCS == {"u_read", "u_update", "u_reassign", "u_commit", "u_respond"}

\* fields to update: data.get(key, order[key]) against the snapshot
Field(p, key) == Get(req[p].data, key, snap[p][key])

time_changed(p) == \/ Field(p, "pickup_time") # snap[p].pickup_time
                   \/ Field(p, "dropoff_time") # snap[p].dropoff_time
weight_changed(p) == Field(p, "weight") # snap[p].weight
needs_reassignment_Always(p) == TRUE
needs_reassignment(p) == time_changed(p) \/ weight_changed(p)

\* a registry that stores a new lock whether or not the key has one (not the program's)
UpdateStart_AlwaysCreates(p, k, data) ==
    /\ pc[p] = "idle"
    /\ nops < MaxOps
    /\ nops' = nops + 1
    /\ IF Get(data, "merchant_id", NULL) = NULL
       THEN /\ req' = [req EXCEPT ![p] = [id |-> k, data |-> data, lock |-> NoLock]]
            /\ out' = [out EXCEPT ![p] = "MissingFields"]
            /\ pc' = [pc EXCEPT ![p] = "u_reject"]
            /\ UNCHANGED << order_locks, lock_held >>
       ELSE /\ order_locks' = [j \in DOMAIN order_locks \cup {k} |->
                                 IF j = k THEN NewLock(k) ELSE order_locks[j]]
            /\ lock_held' = (NewLock(k) :> NoProc) @@ lock_held
            /\ req' = [req EXCEPT ![p] = [id |-> k, data |-> data, lock |-> NewLock(k)]]
            /\ pc' = [pc EXCEPT ![p] = "u_lock"]
            /\ UNCHANGED out
    /\ UNCHANGED << orders, txn, snap, asg >>
\* merchant_id check, then  with lock_manager: get or create order_locks[order_id]
UpdateStart(p, k, data) ==
    /\ pc[p] = "idle"
    /\ nops < MaxOps
    /\ nops' = nops + 1
    /\ IF Get(data, "merchant_id", NULL) = NULL
       THEN /\ req' = [req EXCEPT ![p] = [id |-> k, data |-> data, lock |-> NoLock]]
            /\ out' = [out EXCEPT ![p] = "MissingFields"]
            /\ pc' = [pc EXCEPT ![p] = "u_reject"]
            /\ UNCHANGED << order_locks, lock_held >>
       ELSE LET new_lock == NewLock(k)
                order_lock == IF k \in DOMAIN order_locks THEN order_locks[k] ELSE new_lock
            IN  /\ order_locks' = IF k \in DOMAIN order_locks THEN order_locks
                                  ELSE (k :> new_lock) @@ order_locks
                /\ lock_held' = IF k \in DOMAIN order_locks THEN lock_held
                                ELSE (new_lock :> NoProc) @@ lock_held
                /\ req' = [req EXCEPT ![p] = [id |-> k, data |-> data, lock |-> order_lock]]
                /\ pc' = [pc EXCEPT ![p] = "u_lock"]
                /\ UNCHANGED out
    /\ UNCHANGED << orders, txn, snap, asg >>

\* return jsonify({"error": "merchant_id is required"}), 400
UpdateReject(p) ==
    /\ pc[p] = "u_reject"
    /\ Return(p)
    /\ UNCHANGED << orders, txn, order_locks, lock_held, nops >>

\* with order_lock:  (threading.Lock.acquire blocks while another thread holds it)
UpdateAcquire_NoWait(p) ==
    /\ pc[p] = "u_lock"
    /\ lock_held' = [lock_held EXCEPT ![req[p].lock] = p]
    /\ pc' = [pc EXCEPT ![p] = "u_read"]
    /\ UNCHANGED << orders, txn, order_locks, req, snap, asg, out, nops >>
UpdateAcquire(p) ==
    /\ pc[p] = "u_lock"
    /\ lock_held[req[p].lock] = NoProc
    /\ lock_held' = [lock_held EXCEPT ![req[p].lock] = p]
    /\ pc' = [pc EXCEPT ![p] = "u_read"]
    /\ UNCHANGED << orders, txn, order_locks, req, snap, asg, out, nops >>

\* checks that validate only a window the request states in full (not the program's)
EditCheck_ValidatesFullWindowsOnly(order, data) ==
    IF order.merchant_id # data.merchant_id THEN "Forbidden"
    ELSE IF order.status \in {"completed", "cancelled"} THEN "Immutable"
    ELSE IF "pickup_time" \in DOMAIN data /\ "dropoff_time" \in DOMAIN data
    THEN validate_order_times(data.pickup_time, data.dropoff_time)
    ELSE "ok"
\* the checks without the status check (not the program's)
EditCheck_NoStatusCheck(order, data) ==
    IF order.merchant_id # data.merchant_id THEN "Forbidden"
    ELSE LET pickup_time == Get(data, "pickup_time", order.pickup_time)
             dropoff_time == Get(data, "dropoff_time", order.dropoff_time)
         IN  IF pickup_time # order.pickup_time \/ dropoff_time # order.dropoff_time
             THEN validate_order_times(pickup_time, dropoff_time)
             ELSE "ok"
\* checks that validate the window before they look at the status (not the program's)
EditCheck_ValidatesBeforeStatus(order, data) ==
    IF order.merchant_id # data.merchant_id THEN "Forbidden"
    ELSE LET pickup_time == Get(data, "pickup_time", order.pickup_time)
             dropoff_time == Get(data, "dropoff_time", order.dropoff_time)
             verdict == IF pickup_time # order.pickup_time \/ dropoff_time # order.dropoff_time
                        THEN validate_order_times(pickup_time, dropoff_time)
                        ELSE "ok"
         IN  IF verdict # "ok" THEN verdict
             ELSE IF order.status \in {"completed", "cancelled"} THEN "Immutable"
             ELSE "ok"
\* the failure an edit of this row with this body stops at, or "ok"
EditCheck(order, data) ==
    IF order.merchant_id # data.merchant_id THEN "Forbidden"
    ELSE IF order.status \in {"completed", "cancelled"} THEN "Immutable"
    ELSE LET pickup_time == Get(data, "pickup_time", order.pickup_time)
             dropoff_time == Get(data, "dropoff_time", order.dropoff_time)
         IN  IF pickup_time # order.pickup_time \/ dropoff_time # order.dropoff_time
             THEN validate_order_times(pickup_time, dropoff_time)
             ELSE "ok"

\* SELECT * FROM orders WHERE id = ?  and the checks on the row, up to validation
UpdateRead(p) ==
    /\ pc[p] = "u_read"
    /\ LET k == req[p].id
           kind == IF k \notin DOMAIN View(p) THEN "NotFound"
                   ELSE EditCheck(View(p)[k], req[p].data)
       IN  /\ out' = [out EXCEPT ![p] = kind]
           /\ snap' = [snap EXCEPT ![p] = IF k \in DOMAIN View(p) THEN View(p)[k] ELSE NoRow]
           /\ pc' = [pc EXCEPT ![p] = IF kind = "ok" THEN "u_update" ELSE "u_respond"]
    /\ UNCHANGED << orders, txn, order_locks, lock_held, req, asg, nops >>

\* an UPDATE that is committed on its own (not the program's)
UpdateWrite_Commits(p) ==
    /\ pc[p] = "u_update"
    /\ DbWriteLockFree(p)
    /\ LET k == req[p].id
           row == [View(p)[k] EXCEPT !.description = Field(p, "description"),
                                     !.pickup_time = Field(p, "pickup_time"),
                                     !.dropoff_time = Field(p, "dropoff_time"),
                                     !.weight = Field(p, "weight")]
       IN  orders' = (k :> row) @@ orders
    /\ pc' = [pc EXCEPT ![p] = IF needs_reassignment(p) THEN "u_reassign" ELSE "u_commit"]
    /\ UNCHANGED << txn, order_locks, lock_held, req, snap, asg, out, nops >>
\* UPDATE orders SET description = ?, pickup_time = ?, dropoff_time = ?, weight = ? WHERE id = ?
UpdateWrite(p) ==
    /\ pc[p] = "u_update"
    /\ DbWriteLockFree(p)
    /\ LET k == req[p].id
           row == [View(p)[k] EXCEPT !.description = Field(p, "description"),
                                     !.pickup_time = Field(p, "pickup_time"),
                                     !.dropoff_time = Field(p, "dropoff_time"),
                                     !.weight = Field(p, "weight")]
       IN  txn' = [txn EXCEPT ![p] = Execute(p, k, row)]
    /\ pc' = [pc EXCEPT ![p] = IF needs_reassignment(p) THEN "u_reassign" ELSE "u_commit"]
    /\ UNCHANGED << orders, order_locks, lock_held, req, snap, asg, out, nops >>

\* AND id != ?  in the old driver's overlap count: the rows other than the order's own
OthersOf_All(db, order_id) == db
OthersOf(db, order_id) == [k \in DOMAIN db \ {order_id} |-> db[k]]

\* "Check if old driver still fits": vehicle, covering shift, weight, overlap count
OldDriverFits(db, order_id, old_driver_id, pickup, dropoff, weight) ==
    IF old_driver_id = NULL THEN NoMatch
    ELSE LET vehicle == FirstOr(SelectSeq(vehicles, LAMBDA v : v.driver_id = old_driver_id),
                                NoVehicle)
             shift == SelectSeq(shifts, LAMBDA s : /\ s.driver_id = old_driver_id
                                                   /\ s.shift_date = pickup.date
                                                   /\ s.start_time <= pickup.tod
                                                   /\ s.end_time >= dropoff.tod)
             overlapping == CountOverlapping(OthersOf(db, order_id),
                                             vehicle.id, pickup.date, pickup, dropoff)
         IN  IF /\ vehicle # NoVehicle
                /\ shift # << >>
                /\ weight <= vehicle.max_weight
                /\ overlapping < vehicle.max_orders
             THEN [driver_id |-> old_driver_id, vehicle_id |-> vehicle.id]
             ELSE NoMatch

\* the reassignment reads: the old driver first, else find_available_driver without them
ReassignDecision(p) ==
    LET old_driver_id == snap[p].driver_id
        pickup_time == Field(p, "pickup_time")
        dropoff_time == Field(p, "dropoff_time")
        weight == Field(p, "weight")
        kept == OldDriverFits(View(p), req[p].id, old_driver_id,
                              pickup_time, dropoff_time, weight)
    IN  IF kept.driver_id # NULL THEN kept
        ELSE find_available_driver(View(p), pickup_time, dropoff_time, weight, old_driver_id)

UpdateReassign(p) ==
    /\ pc[p] = "u_reassign"
    /\ asg' = [asg EXCEPT ![p] = ReassignDecision(p)]
    /\ pc' = [pc EXCEPT ![p] = "u_commit"]
    /\ UNCHANGED << orders, txn, order_locks, lock_held, req, snap, out, nops >>

\* the assignment UPDATE (if reassigning) and conn.commit()
UpdateCommit(p) ==
    /\ pc[p] = "u_commit"
    /\ LET k == req[p].id
           row == IF needs_reassignment(p) THEN WriteAssignment(View(p)[k], asg[p])
                  ELSE View(p)[k]
       IN  orders' = Execute(p, k, row).w @@ orders
    /\ txn' = [txn EXCEPT ![p] = NoTxn]
    /\ pc' = [pc EXCEPT ![p] = "u_respond"]
    /\ UNCHANGED << order_locks, lock_held, req, snap, asg, out, nops >>

\* a return that drops the order's registry entry (not the program's)
UpdateRespond_RemovesLock(p) ==
    /\ pc[p] = "u_respond"
    /\ Return(p)
    /\ lock_held' = [lock_held EXCEPT ![req[p].lock] = NoProc]
    /\ order_locks' = [j \in DOMAIN order_locks \ {req[p].id} |-> order_locks[j]]
    /\ UNCHANGED << orders, txn, nops >>
\* a return that leaves the lock held (not the program's)
UpdateRespond_KeepsLock(p) ==
    /\ pc[p] = "u_respond"
    /\ Return(p)
    /\ UNCHANGED << orders, txn, order_locks, lock_held, nops >>
\* conn.close() and the response (after SELECT ... WHERE o.id = ? on success);
\* leaving the with block releases the lock
UpdateRespond(p) ==
    /\ pc[p] = "u_respond"
    /\ Return(p)
    /\ lock_held' = [lock_held EXCEPT ![req[p].lock] = NoProc]
    /\ UNCHANGED << orders, txn, order_locks, nops >>

(* ---------------- DELETE /orders/<order_id> ---------------- *)
\* SELECT * FROM orders WHERE id = ?
DeleteRead(p, k) ==
    /\ pc[p] = "idle"
    /\ nops < MaxOps
    /\ nops' = nops + 1
    /\ req' = [req EXCEPT ![p] = [id |-> k, data |-> EmptyDict, lock |-> NoLock]]
    /\ snap' = [snap EXCEPT ![p] = IF k \in DOMAIN View(p) THEN View(p)[k] ELSE NoRow]
    /\ out' = [out EXCEPT ![p] = IF k \in DOMAIN View(p) THEN "ok" ELSE "NotFound"]
    /\ pc' = [pc EXCEPT ![p] = IF k \in DOMAIN View(p) THEN "d_write" ELSE "d_respond"]
    /\ UNCHANGED << orders, txn, order_locks, lock_held, asg >>

\* UPDATE orders SET status = 'cancelled', driver_id = NULL, vehicle_id = NULL
Cancelled_UnlessCompleted(row) ==
    IF row.status = "completed" THEN row
    ELSE [row EXCEPT !.status = "cancelled", !.driver_id = NULL, !.vehicle_id = NULL]
\* a cancel that reopens an order that is already cancelled (not the program's)
Cancelled_ReopensCancelled(row) ==
    IF row.status = "cancelled" THEN [row EXCEPT !.status = "pending"]
    ELSE [row EXCEPT !.status = "cancelled", !.driver_id = NULL, !.vehicle_id = NULL]
Cancelled(row) ==
    [row EXCEPT !.status = "cancelled", !.driver_id = NULL, !.vehicle_id = NULL]

\* the UPDATE and conn.commit()
\* a cancel that re-runs the matcher for the pending orders (not the program's)
DeleteWrite_RematchesPending(p) ==
    /\ pc[p] = "d_write"
    /\ DbWriteLockFree(p)
    /\ LET k == req[p].id
           db == Execute(p, k, Cancelled(View(p)[k])).w @@ orders
       IN  orders' = [j \in DOMAIN db |->
                        IF j # k /\ db[j].status = "pending"
                        THEN WriteAssignment(db[j],
                                 find_available_driver(db, db[j].pickup_time,
                                                       db[j].dropoff_time, db[j].weight, NULL))
                        ELSE db[j]]
    /\ pc' = [pc EXCEPT ![p] = "d_respond"]
    /\ UNCHANGED << txn, order_locks, lock_held, req, snap, asg, out, nops >>
DeleteWrite_WaitsForOrderLock(p) ==
    /\ pc[p] = "d_write"
    /\ DbWriteLockFree(p)
    /\ req[p].id \in DOMAIN order_locks => lock_held[order_locks[req[p].id]] = NoProc
    /\ LET k == req[p].id
       IN  orders' = Execute(p, k, Cancelled(View(p)[k])).w @@ orders
    /\ pc' = [pc EXCEPT ![p] = "d_respond"]
    /\ UNCHANGED << txn, order_locks, lock_held, req, snap, asg, out, nops >>
DeleteWrite(p) ==
    /\ pc[p] = "d_write"
    /\ DbWriteLockFree(p)
    /\ LET k == req[p].id
       IN  orders' = Execute(p, k, Cancelled(View(p)[k])).w @@ orders
    /\ pc' = [pc EXCEPT ![p] = "d_respond"]
    /\ UNCHANGED << txn, order_locks, lock_held, req, snap, asg, out, nops >>

\* conn.close() and the 404 or 200 response
DeleteRespond(p) ==
    /\ pc[p] = "d_respond"
    /\ Return(p)
    /\ UNCHANGED << orders, txn, order_locks, lock_held, nops >>

(* ---------------- POST /upload (type = orders) ---------------- *)
\* the administrative path: INSERT OR REPLACE of an uploaded row and conn.commit();
\* the rows drawn here are an assigned order's own row with status 'completed'
UploadCompleted(k) ==
    /\ nops < MaxOps
    /\ nops' = nops + 1
    /\ k \in DOMAIN orders
    /\ orders[k].status = "assigned"
    /\ DbWriteLockFree(NoProc)
    /\ orders' = [orders EXCEPT ![k].status = "completed"]
    /\ UNCHANGED << txn, order_locks, lock_held, pc, req, snap, asg, out >>

(* ---------------- the engine ---------------- *)
\* order ids a request names: the orders in the table and one id not in it yet
TargetIds == {k \in OrderIds : k <= Cardinality(DOMAIN orders) + 1}

Next ==
    \/ \E p \in Procs, data \in CreateReqs : CreateStart(p, data)
    \/ \E p \in Procs : CreateInsert(p)
    \/ \E p \in Procs : CreateMatch(p)
    \/ \E p \in Procs : CreateCommit(p)
    \/ \E p \in Procs : CreateRespond(p)
    \/ \E p \in Procs, k \in TargetIds, data \in EditReqs : UpdateStart(p, k, data)
    \/ \E p \in Procs : UpdateReject(p)
    \/ \E p \in Procs : UpdateAcquire(p)
    \/ \E p \in Procs : UpdateRead(p)
    \/ \E p \in Procs : UpdateWrite(p)
    \/ \E p \in Procs : UpdateReassign(p)
    \/ \E p \in Procs : UpdateCommit(p)
    \/ \E p \in Procs : UpdateRespond(p)
    \/ \E p \in Procs, k \in TargetIds : DeleteRead(p, k)
    \/ \E p \in Procs : DeleteWrite(p)
    \/ \E p \in Procs : DeleteRespond(p)
    \/ \E k \in OrderIds : UploadCompleted(k)

Spec == Init /\ [][Next]_vars

\* the statements of a request that has started: a handler thread that can run
\* its next statement is eventually scheduled
Step(p) ==
    \/ CreateInsert(p) \/ CreateMatch(p) \/ CreateCommit(p) \/ CreateRespond(p)
    \/ UpdateReject(p) \/ UpdateAcquire(p) \/ UpdateRead(p) \/ UpdateWrite(p)
    \/ UpdateReassign(p) \/ UpdateCommit(p) \/ UpdateRespond(p)
    \/ DeleteWrite(p) \/ DeleteRespond(p)

\* request bodies, one for each way through the handlers: a create that is accepted
\* and one that is rejected; edits that are rejected without merchant_id, forbidden,
\* accepted without and with reassignment, and rejected for their window
FairCreateReqs == {r \in CreateReqs : r.pickup_time \in {WinA.pickup_time, WinShort.pickup_time}
                                       /\ r.dropoff_time \in {WinA.dropoff_time, WinShort.dropoff_time}}
FairEditReqs ==
    {r \in EditReqs : DOMAIN r \in {{"merchant_id"}, {"description"},
                                     {"merchant_id", "description"}, {"merchant_id", "weight"},
                                     {"merchant_id", "dropoff_time"}}}

FairNext ==
    \/ \E p \in Procs, data \in FairCreateReqs : CreateStart(p, data)
    \/ \E p \in Procs, k \in TargetIds, data \in FairEditReqs : UpdateStart(p, k, data)
    \/ \E p \in Procs, k \in TargetIds : DeleteRead(p, k)
    \/ \E k \in OrderIds : UploadCompleted(k)
    \/ \E p \in Procs : Step(p)

FairSpec == Init /\ [][FairNext]_vars /\ \A p \in Procs : WF_vars(Step(p))

(* ---------------- the engine with one request at a time ---------------- *)
\* no request is being handled
Quiet == \A p \in Procs : pc[p] = "idle"

\* a request arrives only when the one before it has returned
SeqNext ==
    \/ Quiet /\ \E p \in Procs, data \in CreateReqs : CreateStart(p, data)
    \/ Quiet /\ \E p \in Procs, k \in TargetIds, data \in EditReqs : UpdateStart(p, k, data)
    \/ Quiet /\ \E p \in Procs, k \in TargetIds : DeleteRead(p, k)
    \/ Quiet /\ \E k \in OrderIds : UploadCompleted(k)
    \/ \E p \in Procs : Step(p)

SeqSpec == Init /\ [][SeqNext]_vars

(* ---------------- creates and cancels with timestamps in several layouts ---------------- *)
WinAS == [pickup_time |-> Ts(1, 600, "S"), dropoff_time |-> Ts(1, 720, "S")]

CancelCreateReqs ==
    { [merchant_id |-> 1, description |-> "a", pickup_time |-> w.pickup_time,
       dropoff_time |-> w.dropoff_time, weight |-> 50] : w \in {WinA, WinAS, WinCM} }

CancelNext ==
    \/ \E p \in Procs, data \in CancelCreateReqs : CreateStart(p, data)
    \/ \E p \in Procs : CreateInsert(p)
    \/ \E p \in Procs : CreateMatch(p)
    \/ \E p \in Procs : CreateCommit(p)
    \/ \E p \in Procs : CreateRespond(p)
    \/ \E p \in Procs, k \in TargetIds : DeleteRead(p, k)
    \/ \E p \in Procs : DeleteWrite(p)
    \/ \E p \in Procs : DeleteRespond(p)

CancelSpec == Init /\ [][CancelNext]_vars

(* ---------------- the engine at the edges of the capacity tables ---------------- *)
\* the whole shift of driver 2, four hours long
WinFull == [pickup_time |-> Ts(1, 540, "T"), dropoff_time |-> Ts(1, 780, "T")]
\* a window ending half a second after the shift of driver 1 ends
WinLateF == [pickup_time |-> Ts(1, 900, "T"), dropoff_time |-> Ts(1, 1020, "F")]

\* creates at the max_weight of vehicle 12 and past the end of a shift
EdgeCreateReqs ==
    { [merchant_id |-> 1, description |-> "a", pickup_time |-> WinFull.pickup_time,
       dropoff_time |-> WinFull.dropoff_time, weight |-> 200],
      [merchant_id |-> 1, description |-> "a", pickup_time |-> WinLateF.pickup_time,
       dropoff_time |-> WinLateF.dropoff_time, weight |-> 50] }

\* edits without merchant_id, to the max_weight of vehicle 11, and to a window on
\* which a shift ends
EdgeEditReqs ==
    { [description |-> "b"],
      [merchant_id |-> 1, weight |-> 100],
      [merchant_id |-> 1, pickup_time |-> WinC.pickup_time,
       dropoff_time |-> Ts(1, 780, "T")] }

EdgeNext ==
    \/ \E p \in Procs, data \in EdgeCreateReqs : CreateStart(p, data)
    \/ \E p \in Procs, k \in TargetIds, data \in EdgeEditReqs : UpdateStart(p, k, data)
    \/ \E p \in Procs, k \in TargetIds : DeleteRead(p, k)
    \/ \E k \in OrderIds : UploadCompleted(k)
    \/ \E p \in Procs : Step(p)

EdgeSpec == Init /\ [][EdgeNext]_vars

(* ======================= properties ======================= *)
Completed(row) == [row EXCEPT !.status = "completed"]

\* C1: two edits of the same order are never inside the order_lock block together,
\* every edit inside it holds the order's lock, and from its snapshot to its commit
\* no other edit's write reaches the row (the row is the snapshot, or the snapshot
\* cancelled or completed by a handler that takes no order lock).
C1_EditsOfSameOrderSerialized ==
    /\ \A p, q \in Procs :
          (p # q /\ pc[p] \in EditCS /\ pc[q] \in EditCS) => req[p].id # req[q].id
    /\ \A p \in Procs :
          pc[p] \in EditCS =>
             /\ order_locks[req[p].id] = req[p].lock
             /\ lock_held[req[p].lock] = p
    /\ \A p \in Procs :
          pc[p] \in {"u_update", "u_reassign", "u_commit"} =>
             orders[req[p].id] \in {snap[p], Cancelled(snap[p]), Completed(snap[p])}

\* an edit holds an uncommitted write of an order while a second edit of it waits for the lock
C1_Witness ==
    \E p, q \in Procs :
        /\ p # q
        /\ pc[p] = "u_commit" /\ txn[p].open
        /\ pc[q] = "u_lock" /\ req[q].id = req[p].id
        /\ View(p)[req[p].id] # orders[req[p].id]

RowConsistent(row) ==
    /\ row.status = "assigned" => (row.driver_id # NULL /\ row.vehicle_id # NULL)
    /\ row.status \in {"pending", "cancelled"} => (row.driver_id = NULL /\ row.vehicle_id = NULL)
    /\ (row.driver_id = NULL) <=> (row.vehicle_id = NULL)

\* C2: in the committed table and in every connection's view, an assigned order has
\* driver and vehicle, a pending or cancelled order has neither, and driver and
\* vehicle are null together or set together.
C2_StatusMatchesAssignment ==
    /\ \A k \in DOMAIN orders : RowConsistent(orders[k])
    /\ \A p \in Procs : \A k \in DOMAIN View(p) : RowConsistent(View(p)[k])

\* a create, an edit and a cancel of one order have interleaved: the edit read the
\* order, the cancel committed, and the edit's reassignment then left the order assigned
C2_Witness ==
    \E p, q \in Procs :
        /\ pc[p] = "u_respond" /\ out[p] = "ok" /\ needs_reassignment(p)
        /\ pc[q] = "d_respond" /\ out[q] = "ok" /\ req[q].id = req[p].id
        /\ orders[req[p].id].status = "assigned"
        /\ orders[req[p].id].driver_id # NULL

\* C3: a committed cancelled row never changes again (status, driver, vehicle,
\* pickup, dropoff, weight, description).
C3_CancelledIsTerminal ==
    [][\A k \in DOMAIN orders : orders[k].status = "cancelled" => orders'[k] = orders[k]]_vars

\* C4: a committed completed row is never changed by create, edit or cancel.
C4_CompletedIsTerminal ==
    [][\A k \in DOMAIN orders : orders[k].status = "completed" => orders'[k] = orders[k]]_vars

\* both operations have read overlapCount < max_orders for the same vehicle and
\* neither has committed its assignment yet
CapacityRace ==
    \E p, q \in Procs :
        /\ p # q
        /\ pc[p] \in {"c_commit", "u_commit"} /\ pc[q] \in {"c_commit", "u_commit"}
        /\ req[p].id # req[q].id
        /\ asg[p].vehicle_id # NULL /\ asg[p].vehicle_id = asg[q].vehicle_id

C6_CancelAlwaysCancels ==
    [][\A p \in Procs :
          (pc[p] = "d_write" /\ pc'[p] = "d_respond") =>
              /\ orders'[req[p].id].status = "cancelled"
              /\ orders'[req[p].id].driver_id = NULL
              /\ orders'[req[p].id].vehicle_id = NULL]_vars

\* a cancel that read a completed order has committed
C6_Witness ==
    \E p \in Procs :
        /\ pc[p] = "d_respond" /\ out[p] = "ok"
        /\ snap[p].status = "completed" /\ snap[p].driver_id # NULL
        /\ orders[req[p].id].status = "cancelled"
        /\ orders[req[p].id].driver_id = NULL

\* C7: a create or cancel thread never holds an order lock, and its write is held
\* back by nothing but the database write lock: whoever holds the order's lock,
\* the INSERT of a create and the UPDATE of a cancel can run.
C7_CreateCancelTakeNoOrderLock ==
    \A p \in Procs :
        /\ pc[p] \in CreateLabels \cup {"d_write", "d_respond"} =>
              \A l \in DOMAIN lock_held : lock_held[l] # p
        /\ (pc[p] = "d_write" /\ DbWriteLockFree(p)) => ENABLED DeleteWrite(p)
        /\ (pc[p] = "c_insert" /\ DbWriteLockFree(p)) => ENABLED CreateInsert(p)

\* a cancel of order k has committed while an edit that read k before the cancel
\* still holds k's lock
C7_Witness ==
    \E p, q \in Procs :
        /\ pc[p] = "d_respond" /\ out[p] = "ok"
        /\ pc[q] = "u_update" /\ req[q].id = req[p].id
        /\ lock_held[order_locks[req[q].id]] = q
        /\ snap[q].status = "assigned"
        /\ orders[req[q].id].status = "cancelled"

(* ---------------- the matcher against the feasibility predicate ---------------- *)
MatcherWindows == {WinA, WinB, WinBS}
MatcherWeights == {50, 150}
MatcherExcludes == {NULL, 1, 2}

\* assigned/completed orders on the vehicle, on the order's date, whose window
\* overlaps [pickup, dropoff) in time
OverlapCount(db, vehicle_id, pickup, dropoff) ==
    Cardinality({k \in DOMAIN db :
        /\ db[k].vehicle_id = vehicle_id
        /\ db[k].status \in {"assigned", "completed"}
        /\ db[k].pickup_time.date = pickup.date
        /\ TimeLT(db[k].pickup_time, dropoff)
        /\ TimeLT(pickup, db[k].dropoff_time)})

Feasible(db, driver_id, vehicle_id, pickup, dropoff, weight, exclude_driver_id) ==
    /\ driver_id # exclude_driver_id
    /\ \E i \in DOMAIN shifts :
          /\ shifts[i].driver_id = driver_id
          /\ shifts[i].shift_date = pickup.date
          /\ 120 * shifts[i].start_time <= HalfSeconds(pickup)
          /\ 120 * shifts[i].end_time >= HalfSeconds(dropoff)
    /\ \E j \in DOMAIN vehicles :
          /\ vehicles[j].id = vehicle_id
          /\ vehicles[j].driver_id = driver_id
          /\ weight <= vehicles[j].max_weight
          /\ OverlapCount(db, vehicle_id, pickup, dropoff) < vehicles[j].max_orders

\* C8: on the committed store, whatever the matcher returns is feasible: covering
\* shift, the driver's own vehicle, weight within max_weight, fewer than max_orders
\* overlapping assigned/completed orders, and not the excluded driver.
C8_MatcherSound ==
    \A w \in MatcherWindows, weight \in MatcherWeights, x \in MatcherExcludes :
        LET r == find_available_driver(orders, w.pickup_time, w.dropoff_time, weight, x)
        IN  r # NoMatch =>
               Feasible(orders, r.driver_id, r.vehicle_id, w.pickup_time, w.dropoff_time,
                        weight, x)

\* C9: on the committed store, the matcher returns the first enumerated candidate
\* that is feasible, and no match exactly when none is.
C9_MatcherFirstFit ==
    \A w \in MatcherWindows, weight \in MatcherWeights, x \in MatcherExcludes :
        LET cands == CoveringShifts(1, w.pickup_time.date, w.pickup_time.tod, w.dropoff_time.tod)
            ok == {i \in DOMAIN cands :
                      Feasible(orders, cands[i].driver_id, cands[i].vehicle_id,
                               w.pickup_time, w.dropoff_time, weight, x)}
            r == find_available_driver(orders, w.pickup_time, w.dropoff_time, weight, x)
        IN  IF ok = {} THEN r = NoMatch
            ELSE LET first == CHOOSE i \in ok : \A j \in ok : i <= j
                 IN  r = [driver_id |-> cands[first].driver_id,
                          vehicle_id |-> cands[first].vehicle_id]

CountablePeers(db, order_id, vehicle_id, pickup) ==
    {k \in DOMAIN db \ {order_id} :
        /\ db[k].vehicle_id = vehicle_id
        /\ db[k].status \in {"assigned", "completed"}
        /\ db[k].pickup_time.date = pickup.date}

\* C11: every overlap count a create or an edit is about to take, for any vehicle
\* it may consider, selects only other orders on that vehicle that are assigned or
\* completed on the same date, and never the order under evaluation: in the
\* create's matcher call, in the edit's old-driver check, and in the edit's
\* matcher call (which skips the old driver) after the new times are written.
C11_CountExcludesSelf ==
    \A p \in Procs :
        /\ pc[p] = "c_match" =>
              \A i \in DOMAIN vehicles :
                  OverlappingOrders(View(p), vehicles[i].id, req[p].data.pickup_time.date,
                                    req[p].data.pickup_time, req[p].data.dropoff_time)
                     \subseteq CountablePeers(View(p), req[p].id, vehicles[i].id,
                                              req[p].data.pickup_time)
        /\ pc[p] = "u_reassign" =>
              \A i \in DOMAIN vehicles :
                  LET pickup == Field(p, "pickup_time")
                      dropoff == Field(p, "dropoff_time")
                      db == IF vehicles[i].driver_id = snap[p].driver_id
                            THEN OthersOf(View(p), req[p].id) ELSE View(p)
                  IN  OverlappingOrders(db, vehicles[i].id, pickup.date, pickup, dropoff)
                         \subseteq CountablePeers(View(p), req[p].id, vehicles[i].id, pickup)

\* an edit has written a new window that overlaps its own stored window and is
\* about to re-check its driver: only the id exclusion keeps its own row out
C11_Witness ==
    \E p \in Procs :
        /\ pc[p] = "u_reassign" /\ time_changed(p)
        /\ View(p)[req[p].id].status = "assigned"
        /\ View(p)[req[p].id].vehicle_id = snap[p].vehicle_id
        /\ req[p].id \in OverlappingOrders(View(p), snap[p].vehicle_id,
                                           Field(p, "pickup_time").date,
                                           Field(p, "pickup_time"), Field(p, "dropoff_time"))

OverlapWindows == {WinA, WinB, WinBS, WinC, WinCM}

\* C12: for every assigned or completed order and every candidate window, the
\* count's WHERE clause selects the order exactly when existing.pickup <
\* candidate.dropoff and existing.dropoff > candidate.pickup as instants; in
\* particular an order whose dropoff equals the candidate's pickup is not selected.
C12_OverlapIsHalfOpen ==
    \A k \in DOMAIN orders, w \in OverlapWindows :
        (orders[k].status \in {"assigned", "completed"} /\ orders[k].vehicle_id # NULL) =>
            /\ k \in OverlappingOrders(orders, orders[k].vehicle_id, w.pickup_time.date,
                                       w.pickup_time, w.dropoff_time)
                  <=> (/\ TimeLT(orders[k].pickup_time, w.dropoff_time)
                       /\ TimeLT(w.pickup_time, orders[k].dropoff_time))
            /\ (orders[k].dropoff_time.tod = w.pickup_time.tod
                /\ orders[k].dropoff_time.date = w.pickup_time.date) =>
                  k \notin OverlappingOrders(orders, orders[k].vehicle_id, w.pickup_time.date,
                                             w.pickup_time, w.dropoff_time)

\* C13: the step in which assign_driver_to_order writes and commits leaves the
\* order with exactly the matcher's driver and vehicle and status assigned if the
\* matcher found a pair, and with no driver, no vehicle and status pending if not;
\* the result written is the matcher's on the store as the connection sees it.
C13_CoordinatorWritesDecision ==
    [][\A p \in Procs :
          (pc[p] = "c_commit" /\ pc'[p] = "c_respond") =>
              LET found == find_available_driver(View(p), req[p].data.pickup_time,
                                                 req[p].data.dropoff_time,
                                                 req[p].data.weight, NULL)
                  row == orders'[req[p].id]
              IN  IF found # NoMatch
                  THEN /\ row.driver_id = found.driver_id
                       /\ row.vehicle_id = found.vehicle_id
                       /\ row.status = "assigned"
                  ELSE /\ row.driver_id = NULL
                       /\ row.vehicle_id = NULL
                       /\ row.status = "pending"]_vars

\* the coordinator has just committed a matched order while an earlier order,
\* for which the matcher found nobody, is pending
C13_Witness ==
    \E p \in Procs :
        /\ pc[p] = "c_respond" /\ out[p] = "ok" /\ asg[p] # NoMatch
        /\ orders[req[p].id].status = "assigned"
        /\ orders[req[p].id].driver_id = asg[p].driver_id
        /\ \E k \in DOMAIN orders : orders[k].status = "pending" /\ orders[k].driver_id = NULL

\* C14: an accepted edit whose pickup, dropoff and weight equal the snapshot's goes
\* from its UPDATE straight to its commit without the reassignment reads, and its
\* commit leaves the order's driver, vehicle, status, pickup, dropoff and weight as
\* they were and stores the submitted description.
C14_NoChangeNoReassignment ==
    [][\A p \in Procs :
          (/\ snap[p].pickup_time = Get(req[p].data, "pickup_time", snap[p].pickup_time)
           /\ snap[p].dropoff_time = Get(req[p].data, "dropoff_time", snap[p].dropoff_time)
           /\ snap[p].weight = Get(req[p].data, "weight", snap[p].weight)) =>
              /\ pc[p] = "u_update" => pc'[p] # "u_reassign"
              /\ (pc[p] = "u_commit" /\ pc'[p] = "u_respond") =>
                    LET old == orders[req[p].id]
                        new == orders'[req[p].id]
                    IN  /\ new.driver_id = old.driver_id
                        /\ new.vehicle_id = old.vehicle_id
                        /\ new.status = old.status
                        /\ new.pickup_time = old.pickup_time
                        /\ new.dropoff_time = old.dropoff_time
                        /\ new.weight = old.weight
                        /\ new.description = Get(req[p].data, "description", snap[p].description)
                        /\ new.merchant_id = old.merchant_id]_vars

\* an edit of the description alone has committed on an assigned order
C14_Witness ==
    \E p \in Procs :
        /\ pc[p] = "u_respond" /\ out[p] = "ok"
        /\ "description" \in DOMAIN req[p].data
        /\ snap[p].description # req[p].data.description
        /\ ~time_changed(p) /\ ~weight_changed(p)
        /\ snap[p].status = "assigned"
        /\ orders[req[p].id] = [snap[p] EXCEPT !.description = req[p].data.description]

\* C15: when a reassigning edit runs its reassignment reads and the driver of its
\* snapshot still qualifies for the new parameters (a covering shift on the new
\* date, weight within max_weight, fewer than max_orders other assigned/completed
\* orders overlapping the new window on the vehicle), the decision is that same
\* driver and vehicle, and the commit leaves the order assigned to them.
C15_QualifyingDriverIsKept ==
    [][\A p \in Procs :
          (/\ snap[p].driver_id # NULL
           /\ Feasible(OthersOf(View(p), req[p].id), snap[p].driver_id, snap[p].vehicle_id,
                       Field(p, "pickup_time"), Field(p, "dropoff_time"),
                       Field(p, "weight"), NULL)) =>
              /\ (pc[p] = "u_reassign" /\ pc'[p] = "u_commit") =>
                    asg'[p] = [driver_id |-> snap[p].driver_id,
                               vehicle_id |-> snap[p].vehicle_id]
              /\ (pc[p] = "u_commit" /\ pc'[p] = "u_respond" /\ needs_reassignment(p)) =>
                    /\ orders'[req[p].id].driver_id = snap[p].driver_id
                    /\ orders'[req[p].id].vehicle_id = snap[p].vehicle_id
                    /\ orders'[req[p].id].status = "assigned"]_vars

\* C16: when a reassigning edit runs its reassignment reads and the driver of its
\* snapshot no longer qualifies for the new parameters, the decision is never that
\* driver: it is no match, or a different driver who is feasible; the commit leaves
\* the order assigned to that different driver or pending with no driver and vehicle.
C16_DisqualifiedDriverNotReselected ==
    [][\A p \in Procs :
          (/\ snap[p].driver_id # NULL
           /\ ~Feasible(OthersOf(View(p), req[p].id), snap[p].driver_id, snap[p].vehicle_id,
                        Field(p, "pickup_time"), Field(p, "dropoff_time"),
                        Field(p, "weight"), NULL)) =>
              /\ (pc[p] = "u_reassign" /\ pc'[p] = "u_commit") =>
                    /\ asg'[p].driver_id # snap[p].driver_id
                    /\ asg'[p] # NoMatch =>
                          Feasible(OthersOf(View(p), req[p].id), asg'[p].driver_id,
                                   asg'[p].vehicle_id, Field(p, "pickup_time"),
                                   Field(p, "dropoff_time"), Field(p, "weight"),
                                   snap[p].driver_id)
              /\ (pc[p] = "u_commit" /\ pc'[p] = "u_respond" /\ needs_reassignment(p)) =>
                    LET row == orders'[req[p].id]
                    IN  /\ row.driver_id # snap[p].driver_id
                        /\ \/ row.status = "assigned" /\ row.driver_id # NULL
                           \/ /\ row.status = "pending"
                              /\ row.driver_id = NULL /\ row.vehicle_id = NULL]_vars

\* some driver other than the given one is feasible for the parameters
OtherDriverFeasible(db, driver_id, pickup, dropoff, weight) ==
    \E j \in DOMAIN vehicles :
        /\ vehicles[j].driver_id # driver_id
        /\ Feasible(db, vehicles[j].driver_id, vehicles[j].id, pickup, dropoff, weight, driver_id)

MaxWeightOf(vehicle_id) ==
    FirstOr(SelectSeq(vehicles, LAMBDA v : v.id = vehicle_id), NoVehicle).max_weight

\* C17: an edit of an order assigned to driver D that sets a weight above the
\* max_weight of D's vehicle, while no other driver is feasible for the new
\* parameters, commits the order as pending with no driver and no vehicle and
\* with the new weight stored.
C17_OverweightEditGoesPending ==
    [][\A p \in Procs :
          (/\ pc[p] = "u_commit" /\ pc'[p] = "u_respond"
           /\ snap[p].driver_id # NULL
           /\ Field(p, "weight") > MaxWeightOf(snap[p].vehicle_id)
           /\ ~OtherDriverFeasible(OthersOf(View(p), req[p].id), snap[p].driver_id,
                                   Field(p, "pickup_time"), Field(p, "dropoff_time"),
                                   Field(p, "weight"))) =>
              LET row == orders'[req[p].id]
              IN  /\ row.status = "pending"
                  /\ row.driver_id = NULL /\ row.vehicle_id = NULL
                  /\ row.weight = Field(p, "weight")]_vars

\* C18: when exactly one driver has a shift covering a new order's window and that
\* driver's vehicle already carries max_orders assigned or completed orders
\* overlapping the window, the create commits the order as pending with no driver
\* and no vehicle.
C18_CapacityExhaustedStaysPending ==
    [][\A p \in Procs :
          (pc[p] = "c_commit" /\ pc'[p] = "c_respond") =>
              LET pickup == req[p].data.pickup_time
                  dropoff == req[p].data.dropoff_time
                  cands == CoveringShifts(1, pickup.date, pickup.tod, dropoff.tod)
              IN  (/\ Len(cands) = 1
                   /\ OverlapCount(OthersOf(View(p), req[p].id), cands[1].vehicle_id,
                                   pickup, dropoff) >= cands[1].max_orders) =>
                      /\ orders'[req[p].id].status = "pending"
                      /\ orders'[req[p].id].driver_id = NULL
                      /\ orders'[req[p].id].vehicle_id = NULL]_vars

\* C19: an edit that reads an order created by another merchant fails with
\* Forbidden; an edit by the creator that reads a completed or cancelled order
\* fails with Immutable; an edit failing either way writes nothing: it has no
\* open transaction and its steps leave every order as it was.
C19_ForbiddenImmutableNoChange ==
    [][\A p \in Procs :
          /\ (pc[p] = "u_read" /\ pc'[p] # "u_read" /\ req[p].id \in DOMAIN orders) =>
                LET order == orders[req[p].id]
                IN  /\ order.merchant_id # req[p].data.merchant_id =>
                          (out'[p] = "Forbidden" /\ pc'[p] = "u_respond")
                    /\ (/\ order.merchant_id = req[p].data.merchant_id
                        /\ order.status \in {"completed", "cancelled"}) =>
                          (out'[p] = "Immutable" /\ pc'[p] = "u_respond")
                    /\ out'[p] \in {"Forbidden", "Immutable"} =>
                          (orders' = orders /\ txn' = txn)
          /\ (pc[p] = "u_respond" /\ out[p] \in {"Forbidden", "Immutable"}) =>
                /\ ~txn[p].open
                /\ pc'[p] # pc[p] => (pc'[p] = "idle" /\ orders' = orders /\ txn' = txn)]_vars

\* the creator's edit of a cancelled order is failing with Immutable while the
\* order is as the cancel left it
C19_Witness ==
    \E p \in Procs :
        /\ pc[p] = "u_respond" /\ out[p] = "Immutable"
        /\ snap[p].status = "cancelled"
        /\ DOMAIN req[p].data # {"merchant_id"}
        /\ orders[req[p].id] = snap[p]

ValidationErrors == {"InvalidFormat", "CrossDayWindow", "WindowTooShort", "WindowTooLong"}

\* C20: a create whose window fails validation is rejected with the validator's
\* error and inserts no order; an edit that passes the ownership and status checks
\* and whose changed window fails validation is rejected with the validator's
\* error; a handler rejecting so has no open transaction, and its steps leave the
\* orders table as it was.
C20_InvalidWindowRejected ==
    [][\A p \in Procs :
          /\ (pc[p] = "idle" /\ pc'[p] \in CreateLabels) =>
                LET data == req'[p].data
                    verdict == validate_order_times(data.pickup_time, data.dropoff_time)
                IN  verdict # "ok" =>
                       /\ out'[p] = verdict /\ pc'[p] = "c_respond"
                       /\ orders' = orders /\ txn' = txn
          /\ (pc[p] = "u_read" /\ pc'[p] # "u_read" /\ req[p].id \in DOMAIN orders) =>
                LET order == orders[req[p].id]
                    pickup == Get(req[p].data, "pickup_time", order.pickup_time)
                    dropoff == Get(req[p].data, "dropoff_time", order.dropoff_time)
                    verdict == validate_order_times(pickup, dropoff)
                IN  (/\ order.merchant_id = req[p].data.merchant_id
                     /\ order.status \notin {"completed", "cancelled"}
                     /\ verdict # "ok") =>
                       /\ out'[p] = verdict /\ pc'[p] = "u_respond"
                       /\ orders' = orders /\ txn' = txn
          /\ (pc[p] \in {"c_respond", "u_respond"} /\ out[p] \in ValidationErrors) =>
                /\ ~txn[p].open
                /\ pc'[p] # pc[p] => (pc'[p] = "idle" /\ orders' = orders /\ txn' = txn)]_vars

\* a create and an edit are both being rejected for their windows; the edited
\* order is as the edit found it
C20_Witness ==
    \E p, q \in Procs :
        /\ pc[p] = "c_respond" /\ out[p] \in ValidationErrors
        /\ pc[q] = "u_respond" /\ out[q] \in ValidationErrors
        /\ snap[q].status = "assigned"
        /\ orders[req[q].id] = snap[q]
        /\ DOMAIN orders = {req[q].id}

(* ---------------- the validator on its own ---------------- *)
\* timestamps handed to validate_order_times: the ends of windows of 14, 15, 240
\* and 241 minutes, the next day, a text that is no ISO timestamp, and UTC texts
ValidatorTimes ==
    { Ts(1, 600, "T"), Ts(1, 614, "T"), Ts(1, 615, "T"), Ts(1, 840, "T"), Ts(1, 841, "T"),
      Ts(2, 600, "T"), Ts(1, 600, "text"), Ts(1, 600, "Z"), Ts(1, 720, "Z") }

\* the callers of validate_order_times hold the two texts of the request
ValidatorInit ==
    /\ orders = EmptyDict
    /\ txn = [p \in Procs |-> NoTxn]
    /\ order_locks = EmptyDict
    /\ lock_held = EmptyDict
    /\ pc = [p \in Procs |-> IF p = 1 THEN "v_call" ELSE "idle"]
    /\ \E a \in ValidatorTimes, b \in ValidatorTimes :
          req = [p \in Procs |-> IF p = 1
                                 THEN [id |-> NULL, lock |-> NoLock,
                                       data |-> [pickup_time |-> a, dropoff_time |-> b]]
                                 ELSE NoReq]
    /\ snap = [p \in Procs |-> NoRow]
    /\ asg = [p \in Procs |-> NoMatch]
    /\ out = [p \in Procs |-> "none"]
    /\ nops = 0

\* valid, error_msg = validate_order_times(pickup_time, dropoff_time)
ValidatorCall(p) ==
    /\ pc[p] = "v_call"
    /\ out' = [out EXCEPT ![p] = validate_order_times(req[p].data.pickup_time,
                                                      req[p].data.dropoff_time)]
    /\ pc' = [pc EXCEPT ![p] = "v_done"]
    /\ UNCHANGED << orders, txn, order_locks, lock_held, req, snap, asg, nops >>

ValidatorNext == \E p \in Procs : ValidatorCall(p)

ValidatorSpec == ValidatorInit /\ [][ValidatorNext]_vars

\* minutes from the pickup to the dropoff the two texts denote
WindowMinutes(pickup, dropoff) ==
    (dropoff.date - pickup.date) * 1440 + dropoff.tod - pickup.tod

\* C21: validate_order_times succeeds exactly when both texts parse, are on the
\* same calendar day and lie 15 to 240 minutes apart (both ends included); a
\* same-day window under 15 minutes fails as WindowTooShort, one over 240 minutes
\* as WindowTooLong, and parsed texts on different days fail as CrossDayWindow.
C21_ValidatorVerdict ==
    \A p \in Procs :
        pc[p] = "v_done" =>
           LET pickup == req[p].data.pickup_time
               dropoff == req[p].data.dropoff_time
               parsed == Parses(pickup) /\ Parses(dropoff)
               same_day == pickup.date = dropoff.date
               minutes == WindowMinutes(pickup, dropoff)
           IN  /\ out[p] = "ok" <=>
                     (parsed /\ same_day /\ MinWindow <= minutes /\ minutes <= MaxWindow)
               /\ (parsed /\ ~same_day) => out[p] = "CrossDayWindow"
               /\ (parsed /\ same_day /\ minutes < MinWindow) => out[p] = "WindowTooShort"
               /\ (parsed /\ same_day /\ minutes > MaxWindow) => out[p] = "WindowTooLong"

\* an edit of order k is between acquiring the order's lock and its return
EditInProgress(k) == \E p \in Procs : pc[p] \in EditCS /\ req[p].id = k

\* C22: whenever no edit of order k is inside the order_lock block, the lock the
\* registry keeps for k is free; a held lock is held by an edit of that order that
\* is inside the block.  So every way an edit ends (success, NotFound, Forbidden,
\* Immutable, a validation failure) has released the lock.
C22_LockReleasedOnEveryExit ==
    \A k \in DOMAIN order_locks :
        /\ ~EditInProgress(k) => lock_held[order_locks[k]] = NoProc
        /\ lock_held[order_locks[k]] # NoProc =>
              LET p == lock_held[order_locks[k]]
              IN  pc[p] \in EditCS /\ req[p].id = k

\* edits have ended as NotFound (order 2 is not in the table) and on an existing
\* order; no request is running and both locks are free
C22_Witness ==
    /\ DOMAIN order_locks = {1, 2}
    /\ DOMAIN orders = {1}
    /\ \A p \in Procs : pc[p] = "idle"
    /\ \A k \in DOMAIN order_locks : lock_held[order_locks[k]] = NoProc

\* C23: the registry starts empty; a key enters it only in the step in which an
\* edit request for that order asks for its lock, and that request gets the lock
\* stored; a key in the registry stays, mapped to the same lock object, in every
\* later state, and no lock object ever disappears.
C23_LocksLazyAndPermanent ==
    /\ order_locks = EmptyDict
    /\ [][/\ \A k \in DOMAIN order_locks :
                k \in DOMAIN order_locks' /\ order_locks'[k] = order_locks[k]
          /\ \A k \in DOMAIN order_locks' \ DOMAIN order_locks :
                \E p \in Procs : /\ pc[p] = "idle" /\ pc'[p] = "u_lock"
                                 /\ req'[p].id = k /\ req'[p].lock = order_locks'[k]
          /\ DOMAIN lock_held \subseteq DOMAIN lock_held']_vars

\* an edit of an order has committed and returned; a later edit of the same order
\* has fetched the lock the first one created, the only lock object there is
C23_Witness ==
    \E p \in Procs :
        /\ pc[p] = "u_lock"
        /\ req[p].id \in DOMAIN orders /\ orders[req[p].id].description = "b"
        /\ \A q \in Procs \ {p} : pc[q] = "idle"
        /\ req[p].lock = order_locks[req[p].id]
        /\ DOMAIN lock_held = {req[p].lock}
        /\ lock_held[req[p].lock] = NoProc

\* some driver has a covering shift, a vehicle that takes the weight and fewer than
\* max_orders orders overlapping the window
SomeDriverFeasible(db, pickup, dropoff, weight) ==
    \E j \in DOMAIN vehicles :
        Feasible(db, vehicles[j].driver_id, vehicles[j].id, pickup, dropoff, weight, NULL)

\* C24: a create that passed the checks (valid window, existing merchant) commits
\* and answers success, never an error.  Its order is committed assigned to the
\* matcher's driver and vehicle exactly when some driver has a covering shift,
\* sufficient max_weight and spare max_orders, and otherwise pending with no
\* driver and no vehicle; in particular it is pending when no shift covers the
\* window or the weight exceeds the max_weight of every covering driver's vehicle.
C24_CreateAssignsOrPends ==
    [][\A p \in Procs :
          (pc[p] = "c_commit" /\ pc'[p] = "c_respond") =>
              LET k == req[p].id
                  pickup == req[p].data.pickup_time
                  dropoff == req[p].data.dropoff_time
                  weight == req[p].data.weight
                  cands == CoveringShifts(1, pickup.date, pickup.tod, dropoff.tod)
                  row == orders'[k]
              IN  /\ out'[p] = "ok"
                  /\ row.status \in {"assigned", "pending"}
                  /\ row.status = "assigned" =>
                        /\ [driver_id |-> row.driver_id, vehicle_id |-> row.vehicle_id]
                              = find_available_driver(View(p), pickup, dropoff, weight, NULL)
                        /\ row.driver_id # NULL /\ row.vehicle_id # NULL
                  /\ row.status = "pending" => (row.driver_id = NULL /\ row.vehicle_id = NULL)
                  /\ row.status = "assigned" <=>
                        SomeDriverFeasible(OthersOf(View(p), k), pickup, dropoff, weight)
                  /\ (\A i \in DOMAIN cands : weight > cands[i].max_weight) =>
                        row.status = "pending"]_vars

\* C25: a step of a create, edit or cancel of order k leaves every other order's
\* committed row as it was, and writes no other order's row in its transaction.
C25_OtherOrdersUntouched ==
    [][\A p \in Procs :
          pc'[p] # pc[p] =>
             /\ \A j \in DOMAIN orders : j # req[p].id => orders'[j] = orders[j]
             /\ DOMAIN txn'[p].w \subseteq {req'[p].id}]_vars

\* a cancel has committed and freed the vehicle that another, pending order could
\* use; the pending order is still pending
C25_Witness ==
    \E p \in Procs, j \in DOMAIN orders :
        /\ pc[p] = "d_respond" /\ out[p] = "ok"
        /\ j # req[p].id
        /\ orders[req[p].id].status = "cancelled"
        /\ orders[j].status = "pending"
        /\ SomeDriverFeasible(orders, orders[j].pickup_time, orders[j].dropoff_time,
                              orders[j].weight)

LocksHeldBy(p) == {l \in DOMAIN lock_held : lock_held[l] = p}

\* C26: with every runnable handler thread eventually scheduled, an edit waiting
\* for its order's lock eventually holds it, and every started create, edit or
\* cancel (so every edit holding a lock) eventually returns, holding no lock; no
\* thread ever holds more than one order lock, and a thread holds one only inside
\* the order_lock block.
C26_EditsAcquireAndTerminate ==
    /\ \A p \in Procs : (pc[p] = "u_lock") ~> (pc[p] = "u_read" /\ lock_held[req[p].lock] = p)
    /\ \A p \in Procs : (pc[p] # "idle") ~> (pc[p] = "idle" /\ LocksHeldBy(p) = {})
    /\ [](\A p \in Procs : /\ Cardinality(LocksHeldBy(p)) <= 1
                           /\ LocksHeldBy(p) # {} => pc[p] \in EditCS)

\* an edit holds its order's lock and waits for the database write lock, which a
\* create holds
C26_Witness ==
    \E p, q \in Procs :
        /\ pc[p] = "u_update" /\ lock_held[req[p].lock] = p
        /\ ~DbWriteLockFree(p)
        /\ pc[q] \in {"c_match", "c_commit"} /\ txn[q].open

\* the row's window: both texts parse, same calendar day, 15 to 240 minutes
ValidWindow(row) ==
    /\ Parses(row.pickup_time) /\ Parses(row.dropoff_time)
    /\ row.pickup_time.date = row.dropoff_time.date
    /\ 120 * MinWindow <= HalfSeconds(row.dropoff_time) - HalfSeconds(row.pickup_time)
    /\ HalfSeconds(row.dropoff_time) - HalfSeconds(row.pickup_time) <= 120 * MaxWindow

\* C27: every order in the committed table, and every order a connection sees
\* with its own uncommitted writes, has a valid window.
C27_StoredWindowsValid ==
    /\ \A k \in DOMAIN orders : ValidWindow(orders[k])
    /\ \A p \in Procs : \A k \in DOMAIN View(p) : ValidWindow(View(p)[k])

\* an order's window was changed by an edit; a later edit stating only the dropoff
\* time, on another day, is being rejected and the stored window is the valid one
C27_Witness ==
    \E p \in Procs :
        /\ pc[p] = "u_respond" /\ out[p] = "CrossDayWindow"
        /\ "dropoff_time" \in DOMAIN req[p].data /\ "pickup_time" \notin DOMAIN req[p].data
        /\ orders[req[p].id].pickup_time = WinCM.pickup_time
        /\ orders[req[p].id].dropoff_time = WinCM.dropoff_time
        /\ ValidWindow(orders[req[p].id])

Assignment(row) == << row.driver_id, row.vehicle_id, row.status >>
Parameters(row) == << row.pickup_time, row.dropoff_time, row.weight >>

\* C28: what other operations can see of an order never carries part of an
\* assignment update.  A created order is not in the committed table until the
\* step that commits it together with its assignment; the committed row's pickup,
\* dropoff and weight change by a reassigning edit only in the step that also
\* commits the edit's decision for driver, vehicle and status; while an edit's
\* transaction is open the other connections see the order with the parameters
\* they saw before; and driver, vehicle and status of a committed row agree.
C28_AssignmentAllOrNothing ==
    [][/\ \A k \in DOMAIN orders' : RowConsistent(orders'[k])
       /\ \A p \in Procs :
             /\ pc'[p] \in {"c_match", "c_commit"} => req'[p].id \notin DOMAIN orders'
             /\ (pc[p] = "c_commit" /\ pc'[p] = "c_respond") =>
                   Assignment(orders'[req[p].id]) = Assignment(WriteAssignment(NoRow, asg[p]))
             /\ (pc[p] \in {"u_reassign", "u_commit"} /\ needs_reassignment(p)) =>
                   /\ \A q \in Procs \ {p} :
                         Parameters(View(q)[req[p].id]) = Parameters(snap[p])
                   /\ Parameters(orders[req[p].id]) = Parameters(snap[p])
                   /\ Parameters(orders'[req[p].id]) # Parameters(snap[p]) =>
                         /\ pc[p] = "u_commit" /\ pc'[p] = "u_respond"
                         /\ Assignment(orders'[req[p].id])
                               = Assignment(WriteAssignment(NoRow, asg[p]))
                         /\ Parameters(orders'[req[p].id])
                               = << Field(p, "pickup_time"), Field(p, "dropoff_time"),
                                    Field(p, "weight") >>]_vars

\* a reassigning edit has written the new weight and decided on another driver
\* than the order had; nothing of it is committed yet
C28_Witness ==
    \E p \in Procs :
        /\ pc[p] = "u_commit" /\ needs_reassignment(p) /\ txn[p].open
        /\ Parameters(View(p)[req[p].id]) # Parameters(snap[p])
        /\ asg[p].driver_id \notin {NULL, snap[p].driver_id}
        /\ orders[req[p].id] = snap[p]

\* the edit requests that have fetched their order's lock and not yet returned
HasLock(p) == pc[p] = "u_lock" \/ pc[p] \in EditCS

\* C29: at most one lock object exists per order id, it is the one the registry
\* maps the id to, and every edit request of that order has fetched that object:
\* two requests for the same order never work with different locks.
C29_OneLockPerOrder ==
    /\ \A l1, l2 \in DOMAIN lock_held : l1.key = l2.key => l1 = l2
    /\ \A l \in DOMAIN lock_held : l.key \in DOMAIN order_locks /\ order_locks[l.key] = l
    /\ \A p \in Procs : HasLock(p) => req[p].lock = order_locks[req[p].id]
    /\ \A p, q \in Procs :
          (HasLock(p) /\ HasLock(q) /\ req[p].id = req[q].id) => req[p].lock = req[q].lock

\* the first two requests of the run are edits of the same order, in flight
\* together: one created the lock, both wait at it with the same object
C29_Witness ==
    \E p, q \in Procs :
        /\ p # q /\ nops = 2
        /\ pc[p] = "u_lock" /\ pc[q] = "u_lock"
        /\ req[p].id = req[q].id
        /\ req[p].lock = req[q].lock
        /\ DOMAIN lock_held = {req[p].lock}

\* C30: the registry has at most as many entries as there are orders in the store
\* that an edit has asked a lock for, and an edit that found no order (NotFound)
\* has left no entry for the id it named.
C30_RegistryBoundedByExistingOrders ==
    /\ Cardinality(DOMAIN order_locks) <= Cardinality(DOMAIN order_locks \cap DOMAIN orders)
    /\ \A p \in Procs :
          (pc[p] = "u_respond" /\ out[p] = "NotFound") => req[p].id \notin DOMAIN order_locks

\* the driver has a shift on the window's date that starts no later than the pickup
\* and ends no earlier than the dropoff
ShiftCovers(driver_id, pickup, dropoff) ==
    \E i \in DOMAIN shifts :
        /\ shifts[i].driver_id = driver_id
        /\ shifts[i].shift_date = pickup.date
        /\ shifts[i].shift_date = dropoff.date
        /\ 120 * shifts[i].start_time <= HalfSeconds(pickup)
        /\ 120 * shifts[i].end_time >= HalfSeconds(dropoff)

\* C31: every committed order with status assigned has a driver with a shift on
\* the order's date covering the stored pickup and dropoff, a vehicle that belongs
\* to that driver, and a stored weight within that vehicle's max_weight.
C31_AssignedOrdersCovered ==
    \A k \in DOMAIN orders :
        orders[k].status = "assigned" =>
           /\ ShiftCovers(orders[k].driver_id, orders[k].pickup_time, orders[k].dropoff_time)
           /\ \E j \in DOMAIN vehicles :
                 /\ vehicles[j].id = orders[k].vehicle_id
                 /\ vehicles[j].driver_id = orders[k].driver_id
                 /\ orders[k].weight <= vehicles[j].max_weight

\* the committed orders that occupy the vehicle at the instant order k is picked up
\* (a window holds its pickup instant and not its dropoff instant)
OccupyingAt(vehicle_id, k) ==
    {i \in DOMAIN orders :
        /\ orders[i].vehicle_id = vehicle_id
        /\ orders[i].status \in {"assigned", "completed"}
        /\ orders[i].pickup_time.date = orders[k].pickup_time.date
        /\ HalfSeconds(orders[i].pickup_time) <= HalfSeconds(orders[k].pickup_time)
        /\ HalfSeconds(orders[k].pickup_time) < HalfSeconds(orders[i].dropoff_time)}

\* C32: with requests handled one at a time, no vehicle carries more than
\* max_orders assigned or completed orders at any instant (the load of a vehicle
\* changes only at pickup instants, so these are the instants looked at).
C32_SequentialCapacityRespected ==
    \A j \in DOMAIN vehicles : \A k \in DOMAIN orders :
        Cardinality(OccupyingAt(vehicles[j].id, k)) <= vehicles[j].max_orders

CancelWindows == {WinA, WinC}

\* position of the vehicle among the candidates the matcher enumerates, 0 if absent
CandidateIndex(cands, vehicle_id) ==
    IF \E i \in DOMAIN cands : cands[i].vehicle_id = vehicle_id
    THEN CHOOSE i \in DOMAIN cands : cands[i].vehicle_id = vehicle_id
    ELSE 0

\* C33: in the step that commits the cancel of an order assigned to vehicle v, the
\* order leaves every overlap count, and for every window that the order
\* overlapped: if v is now feasible for it (covering shift, weight, fewer than
\* max_orders overlapping orders) and no candidate the matcher tries before v is,
\* the matcher run on the committed store returns v, so the next create or edit
\* of that window is assigned to v.
C33_CancelFreesCapacity ==
    [][\A p \in Procs :
          (/\ pc[p] = "d_write" /\ pc'[p] = "d_respond"
           /\ orders[req[p].id].status = "assigned") =>
             LET k == req[p].id
                 v == orders[k].vehicle_id
                 d == orders[k].driver_id
             IN  \A w \in CancelWindows :
                    LET cands == CoveringShifts(1, w.pickup_time.date, w.pickup_time.tod,
                                                w.dropoff_time.tod)
                        n == CandidateIndex(cands, v)
                    IN  /\ k \notin OverlappingOrders(orders', v, w.pickup_time.date,
                                                      w.pickup_time, w.dropoff_time)
                        /\ (/\ TimeLT(orders[k].pickup_time, w.dropoff_time)
                            /\ TimeLT(w.pickup_time, orders[k].dropoff_time)
                            /\ Feasible(orders', d, v, w.pickup_time, w.dropoff_time, 50, NULL)
                            /\ \A i \in 1..(n - 1) :
                                  ~Feasible(orders', cands[i].driver_id, cands[i].vehicle_id,
                                            w.pickup_time, w.dropoff_time, 50, NULL)) =>
                              find_available_driver(orders', w.pickup_time, w.dropoff_time,
                                                    50, NULL)
                                 = [driver_id |-> d, vehicle_id |-> v]]_vars

\* C34: a cancel is idempotent and harmless on an unknown id. The step that commits a
\* cancel writes only the cancelled row, and cancelling that row again would give
\* the same row; when the order is already cancelled the step leaves the store as
\* it is. A cancel of an id that is not in the store answers NotFound, goes
\* straight to its response, and neither step of it changes the store, the open
\* transactions or the lock registry.
C34_CancelIdempotent ==
    [][\A p \in Procs :
          /\ (pc[p] = "d_write" /\ pc'[p] = "d_respond") =>
                LET k == req[p].id
                IN  /\ orders' = [orders EXCEPT ![k] = Cancelled(orders[k])]
                    /\ Cancelled(orders'[k]) = orders'[k]
                    /\ orders[k].status = "cancelled" => orders' = orders
          /\ (pc[p] = "idle" /\ pc'[p] \in {"d_write", "d_respond"}
                /\ req'[p].id \notin DOMAIN orders) =>
                /\ pc'[p] = "d_respond" /\ out'[p] = "NotFound"
                /\ UNCHANGED << orders, txn, order_locks, lock_held >>
          /\ (pc[p] = "d_respond" /\ pc'[p] = "idle" /\ out[p] = "NotFound") =>
                UNCHANGED << orders, txn, order_locks, lock_held >>]_vars

\* a second cancel of an order has committed: the cancel read a cancelled row
C34_Witness ==
    \E p \in Procs :
        /\ pc[p] = "d_respond" /\ out[p] = "ok"
        /\ snap[p].status = "cancelled"
        /\ orders[req[p].id].status = "cancelled"

\* the requests that have read (or failed to find) their order and not yet returned
AfterRead == {"u_update", "u_reassign", "u_commit", "u_respond", "d_write", "d_respond"}

\* C35: an order is invisible to edits and cancels until its creation commits the
\* first assignment decision.  While the create is between its INSERT and its
\* commit the order is in nobody else's view, and an edit or cancel of that id
\* that has done its read found nothing and answers NotFound.  The step that
\* makes the order visible writes the inserted pending row together with the
\* decision of the create's matcher run.  An edit or cancel that does find the
\* order reads the committed row, whose driver, vehicle and status agree, and no
\* create of that order is still in progress.
C35_CreateInvisibleUntilDecided ==
    [][\A p \in Procs :
          /\ pc'[p] \in {"c_match", "c_commit"} =>
                LET k == req'[p].id
                IN  /\ k \notin DOMAIN orders'
                    /\ \A q \in Procs \ {p} :
                          /\ k \notin DOMAIN txn'[q].w
                          /\ (req'[q].id = k /\ pc'[q] \in AfterRead) =>
                                /\ pc'[q] \in {"u_respond", "d_respond"}
                                /\ out'[q] = "NotFound"
                                /\ snap'[q] = NoRow
          /\ (pc[p] = "c_commit" /\ pc'[p] = "c_respond") =>
                LET k == req[p].id
                IN  /\ k \notin DOMAIN orders
                    /\ txn[p].w[k].status = "pending"
                    /\ orders' = (k :> WriteAssignment(txn[p].w[k], asg[p])) @@ orders
          /\ (\/ pc[p] = "u_read" /\ pc'[p] # "u_read"
              \/ pc[p] = "idle" /\ pc'[p] \in {"d_write", "d_respond"}) =>
                LET k == req'[p].id
                IN  IF k \in DOMAIN orders
                    THEN /\ snap'[p] = orders[k]
                         /\ RowConsistent(snap'[p])
                         /\ out'[p] # "NotFound"
                         /\ \A q \in Procs : pc[q] \in {"c_insert", "c_match", "c_commit"}
                                                => req[q].id # k
                    ELSE snap'[p] = NoRow /\ out'[p] = "NotFound"]_vars

\* an edit or a cancel has looked for an order whose create has inserted the row
\* and not yet committed its decision, and found nothing
C35_Witness ==
    \E p, q \in Procs :
        /\ pc[p] = "c_commit" /\ txn[p].open /\ req[p].id \notin DOMAIN orders
        /\ req[q].id = req[p].id
        /\ pc[q] \in {"u_respond", "d_respond"}
        /\ out[q] = "NotFound"

BoundaryWindows == {WinA, WinFull}
BoundaryWeights == {100, 200}

MaxOrdersOf(vehicle_id) ==
    FirstOr(SelectSeq(vehicles, LAMBDA v : v.id = vehicle_id), NoVehicle).max_orders

\* steps b and d of the matcher's loop for one candidate
CandidateAccepted(db, shift, pickup, dropoff, weight) ==
    /\ ~(weight > shift.max_weight)
    /\ ~(CountOverlapping(db, shift.vehicle_id, pickup.date, pickup, dropoff)
            >= shift.max_orders)

\* C36: the feasibility boundaries on the committed store.  A shift that starts at
\* the pickup and ends at the dropoff is among the matcher's candidates; a
\* candidate for an order as heavy as max_weight with max_orders - 1 overlapping
\* assigned/completed orders on the vehicle is accepted, and one with max_orders
\* overlapping orders is rejected; the recheck of an assigned order's current
\* driver, which leaves the order itself out of the count, decides the same way.
C36_BoundariesInclusive ==
    \A w \in BoundaryWindows, weight \in BoundaryWeights :
        LET pickup == w.pickup_time
            dropoff == w.dropoff_time
            cands == CoveringShifts(1, pickup.date, pickup.tod, dropoff.tod)
        IN  /\ \A i \in DOMAIN shifts :
                  (/\ shifts[i].shift_date = pickup.date
                   /\ 120 * shifts[i].start_time = HalfSeconds(pickup)
                   /\ 120 * shifts[i].end_time = HalfSeconds(dropoff)) =>
                      \E j \in DOMAIN cands : cands[j].driver_id = shifts[i].driver_id
            /\ \A j \in DOMAIN cands :
                  LET n == OverlapCount(orders, cands[j].vehicle_id, pickup, dropoff)
                  IN  /\ (weight = cands[j].max_weight /\ n = cands[j].max_orders - 1) =>
                            CandidateAccepted(orders, cands[j], pickup, dropoff, weight)
                      /\ n = cands[j].max_orders =>
                            ~CandidateAccepted(orders, cands[j], pickup, dropoff, weight)
            /\ \A k \in DOMAIN orders :
                  orders[k].status = "assigned" =>
                     LET d == orders[k].driver_id
                         v == orders[k].vehicle_id
                         n == OverlapCount(OthersOf(orders, k), v, pickup, dropoff)
                         kept == OldDriverFits(orders, k, d, pickup, dropoff, weight).driver_id = d
                     IN  /\ (/\ ShiftCovers(d, pickup, dropoff)
                             /\ weight = MaxWeightOf(v)
                             /\ n = MaxOrdersOf(v) - 1) => kept
                         /\ n = MaxOrdersOf(v) => ~kept

RecheckWindows == {WinA, WinB, WinC, WinFull}
RecheckWeights == {50, 100, 150}

\* the matcher's loop run over the candidates of one driver only
MatcherForDriver(db, driver_id, pickup, dropoff, weight) ==
    FirstFit(db, SelectSeq(CoveringShifts(1, pickup.date, pickup.tod, dropoff.tod),
                           LAMBDA c : c.driver_id = driver_id),
             1, pickup, dropoff, weight, NULL)

\* the edit path's recheck returns what the matcher's loop returns for the
\* current driver on the store without the edited order
RecheckIsMatcherForDriver ==
    \A k \in DOMAIN orders, w \in RecheckWindows, weight \in RecheckWeights :
        orders[k].status = "assigned" =>
           OldDriverFits(orders, k, orders[k].driver_id, w.pickup_time, w.dropoff_time, weight)
              = MatcherForDriver(OthersOf(orders, k), orders[k].driver_id,
                                 w.pickup_time, w.dropoff_time, weight)

\* C37: for every committed store, every assigned order and every new pickup,
\* dropoff and weight, the edit path's recheck decides as the matcher would for
\* the current driver with the edited order left out, and it keeps the current
\* driver exactly when that driver has a covering shift, the weight is within
\* max_weight and fewer than max_orders other assigned/completed orders on the
\* vehicle overlap the new window.
C37_RecheckIsFeasibility ==
    /\ RecheckIsMatcherForDriver
    /\ \A k \in DOMAIN orders, w \in RecheckWindows, weight \in RecheckWeights :
          orders[k].status = "assigned" =>
             LET d == orders[k].driver_id
                 v == orders[k].vehicle_id
             IN  (OldDriverFits(orders, k, d, w.pickup_time, w.dropoff_time, weight).driver_id = d)
                    <=> Feasible(OthersOf(orders, k), d, v, w.pickup_time, w.dropoff_time,
                                 weight, NULL)

\* the window an edit asks for is not the stored one and fails validation
InvalidWindowAsked(row, data) ==
    LET pickup == Get(data, "pickup_time", row.pickup_time)
        dropoff == Get(data, "dropoff_time", row.dropoff_time)
    IN  /\ pickup # row.pickup_time \/ dropoff # row.dropoff_time
        /\ validate_order_times(pickup, dropoff) # "ok"

\* C38: the step in which an edit reads its order and checks it is taken while the
\* request holds the order's lock, and its outcome follows the order NotFound,
\* Forbidden, Immutable, window validation: an unknown id gives NotFound; a
\* request of another merchant gives Forbidden whatever the order's status; the
\* creator's edit of a completed or cancelled order gives Immutable whatever
\* window it asks for; otherwise an invalid new window gives its validation
\* error, and only a request that passes all four goes on to write.
C38_EditChecksInOrder ==
    [][\A p \in Procs :
          (pc[p] = "u_read" /\ pc'[p] # "u_read") =>
             LET k == req[p].id
                 data == req[p].data
                 db == View(p)
             IN  /\ lock_held[req[p].lock] = p
                 /\ IF k \notin DOMAIN db THEN out'[p] = "NotFound"
                    ELSE IF db[k].merchant_id # data.merchant_id THEN out'[p] = "Forbidden"
                    ELSE IF db[k].status \in {"completed", "cancelled"}
                         THEN out'[p] = "Immutable"
                    ELSE IF InvalidWindowAsked(db[k], data)
                         THEN out'[p] \in ValidationErrors
                    ELSE out'[p] = "ok"
                 /\ pc'[p] = IF out'[p] = "ok" THEN "u_update" ELSE "u_respond"]_vars

\* the creator's edit of a cancelled or completed order with an invalid window
\* has been refused as Immutable
C38_Witness ==
    \E p \in Procs :
        /\ pc[p] = "u_respond" /\ out[p] = "Immutable"
        /\ snap[p].status \in {"completed", "cancelled"}
        /\ snap[p].merchant_id = req[p].data.merchant_id
        /\ InvalidWindowAsked(snap[p], req[p].data)

\* C39: validate_order_times checks the format, then the calendar day, then the
\* minimum and then the maximum duration: a text that does not parse gives
\* InvalidFormat; parsed texts on two calendar days give CrossDayWindow however
\* short or long the window is; a same-day window whose dropoff is not later than
\* its pickup gives WindowTooShort; and WindowTooLong is given only to a same-day
\* window.
C39_ValidatorCheckOrder ==
    \A p \in Procs :
        pc[p] = "v_done" =>
           LET pickup == req[p].data.pickup_time
               dropoff == req[p].data.dropoff_time
               parsed == Parses(pickup) /\ Parses(dropoff)
               same_day == pickup.date = dropoff.date
           IN  /\ ~parsed => out[p] = "InvalidFormat"
               /\ (parsed /\ ~same_day) => out[p] = "CrossDayWindow"
               /\ (parsed /\ same_day /\ HalfSeconds(dropoff) <= HalfSeconds(pickup)) =>
                     out[p] = "WindowTooShort"
               /\ out[p] = "WindowTooLong" =>
                     (parsed /\ same_day /\ WindowMinutes(pickup, dropoff) > MaxWindow)

====
